---- MODULE Spec2Model ----
(***************************************************************************)
(* Model of src/src/main.py: four capped MongoDB collections (snapshots,   *)
(* steps, transactions, logs) behind FastAPI handlers.  A handler is a     *)
(* sequence of backend calls (count_documents, find, delete_many,          *)
(* insert_one); each backend call is one atomic step of the model.         *)
(***************************************************************************)
EXTENDS Integers, FiniteSets, Sequences, TLC

\* ------------------------------------------------------------------ bounds
\* Transaction ids the clients use (Transaction.id, Step.transaction,
\* Snapshot.transaction); steps, snapshots and logs all carry the id OtherId.
Ids == {"x", "y"}
OtherId == "s"
\* Values of the "start" / "createdAt" fields.
Times == {1, 2}
\* Values of number_of_entries.
Numbers == {0 - 1, 0, 1, 2}
\* At most MaxInserts documents are inserted, all collections together.
MaxInserts == 4
\* The source caps steps, snapshots and logs at 50 documents (lines 90-97);
\* the model scales that cap down so that a capped collection stays small.
ScaledSize == 2

\* --------------------------------------------------------------- constants
Collections == {"snapshots", "steps", "transactions", "logs"}

max_size_transactions_collection == 3
chunk_size_to_delete_from_transactions_collection == 1
max_size_steps_collection == ScaledSize
chunk_size_to_delete_from_steps_collection == 1
max_size_snapshots_collection == ScaledSize
chunk_size_to_delete_from_snapshots_collection == 1
max_size_log_collection == ScaledSize
chunk_size_to_delete_from_log_collection == 1

\* The cap the create_* handler of collection c compares count_documents with.
max_size(c) ==
  CASE c = "snapshots"    -> max_size_snapshots_collection
    [] c = "steps"        -> max_size_steps_collection
    [] c = "transactions" -> max_size_transactions_collection
    [] c = "logs"         -> max_size_log_collection

\* A configuration slip: two documents are evicted at a time.
chunk_size_two(c) == 2

\* The limit() the create_* handler of collection c puts on its oldest-first scan.
chunk_size(c) ==
  CASE c = "snapshots"    -> chunk_size_to_delete_from_snapshots_collection
    [] c = "steps"        -> chunk_size_to_delete_from_steps_collection
    [] c = "transactions" -> chunk_size_to_delete_from_transactions_collection
    [] c = "logs"         -> chunk_size_to_delete_from_log_collection

\* A copy slip: every handler sorts on "_id", as create_log does.
sort_field_id(c) == "_id"

\* The field the create_* handler of collection c sorts on.
sort_field(c) ==
  CASE c = "snapshots"    -> "createdAt"
    [] c = "steps"        -> "createdAt"
    [] c = "transactions" -> "start"
    [] c = "logs"         -> "_id"

\* --------------------------------------------------------------- documents
\* A stored document: the backend's _id plus the fields of the pydantic model
\* that the handlers read (id, transaction, start, createdAt).  A field a
\* model does not have is 0 / "".
Snapshot == [id : {OtherId}, transaction : Ids, createdAt : Times, start : {0}]
Step == [id : {OtherId}, transaction : Ids, createdAt : Times, start : {0}]
Log == [id : {OtherId}, transaction : {""}, createdAt : {0}, start : {0}]
Transaction == [id : Ids, transaction : {""}, createdAt : {0}, start : Times]

\* insert_one stores the dict under a fresh _id.
WithId(d, oid) ==
  [_id |-> oid, id |-> d.id, transaction |-> d.transaction,
   createdAt |-> d.createdAt, start |-> d.start]

\* mongo_to_dict: an ObjectId becomes its string, everything else is kept.
mongo_to_dict(doc) == [doc EXCEPT !._id = <<"str", @>>]

Min(a, b) == IF a < b THEN a ELSE b

\* ------------------------------------------------------------------- state
VARIABLES
  db,             \* db[c]: the documents resident in collection c
  next_id,        \* next_id[c]: the _id the next insert_one into c gets
  pc,             \* pc[p]: where worker p is in its handler
  req,            \* req[p]: the request worker p is handling
  ids_to_delete,  \* ids_to_delete[p]: the handler's local of that name
  transaction,    \* transaction[p]: get_transaction's local of that name
  resp,           \* resp[p]: the response of the finished handler
  lastStart       \* start of the latest POST /transactions request

vars == <<db, next_id, pc, req, ids_to_delete, transaction, resp, lastStart>>

\* The server processes.  uvicorn.run (line 215) starts one process with one
\* event loop, and no handler awaits: that process runs one handler at a time.
Workers == {1, 2}
Serial == {1}

NoDoc == [_id |-> 0, id |-> "", transaction |-> "", createdAt |-> 0, start |-> 0]
NoBody == [id |-> "", transaction |-> "", createdAt |-> 0, start |-> 0]
NoReq == [op |-> "", collection_name |-> "", body |-> NoBody, id |-> "",
          number_of_entries |-> 0, count |-> 0, offset |-> 0,
          counted |-> 0, arrival_id |-> 0]
NoResp == [status |-> 0, body |-> {}, steps |-> {}, deleted_count |-> 0]

Init ==
  /\ db = [c \in Collections |-> {}]
  /\ next_id = [c \in Collections |-> 1]
  /\ pc = [p \in Workers |-> "idle"]
  /\ req = [p \in Workers |-> NoReq]
  /\ ids_to_delete = [p \in Workers |-> {}]
  /\ transaction = [p \in Workers |-> NoDoc]
  /\ resp = [p \in Workers |-> NoResp]
  /\ lastStart = 0

\* ----------------------------------------------------------- backend calls
\* An off-by-one count: the document about to be inserted is counted too.
count_documents_ahead(c) == Cardinality(db[c]) + 1

\* collection.count_documents({})
count_documents(c) == Cardinality(db[c])

\* A boundary slip: the cap is only enforced once it is already exceeded.
at_capacity_late(c) == count_documents(c) > max_size(c)

\* The create_* handlers' test: count_documents({}) >= max_size_<c>_collection.
at_capacity(c) == count_documents(c) >= max_size(c)

Abs(n) == IF n < 0 THEN 0 - n ELSE n

\* A dropped limit(): the scan returns every document.
limit_none(n, m) == m

\* cursor.limit(n) on a result of m documents: how many documents come back.
\* pymongo sends no limit for 0 (every document is returned) and the absolute
\* value for a negative n.
limit(n, m) == IF n = 0 THEN m ELSE Min(Abs(n), m)

\* A direction slip: sort(field, -1), the newest documents first.
find_sort_limit_newest(c, field, n) ==
  {{d._id : d \in T} :
     T \in {U \in SUBSET db[c] :
              /\ Cardinality(U) = limit(n, Cardinality(db[c]))
              /\ \A t \in U : \A u \in db[c] \ U : t[field] >= u[field]}}

\* collection.find().sort(field, 1).limit(n): the _id sets the scan may return.
\* The backend returns documents with equal sort keys in an order it chooses.
find_sort_limit(c, field, n) ==
  {{d._id : d \in T} :
     T \in {U \in SUBSET db[c] :
              /\ Cardinality(U) = limit(n, Cardinality(db[c]))
              /\ \A t \in U : \A u \in db[c] \ U : t[field] <= u[field]}}

\* collection.find().limit(n): the _id sets the scan may return (the backend's
\* native order is not specified).
find_limit(c, n) ==
  {{d._id : d \in T} :
     T \in {U \in SUBSET db[c] : Cardinality(U) = limit(n, Cardinality(db[c]))}}

\* collection.find().skip(offset).limit(n) for offset >= 0: the pages the scan
\* may return (the backend's native order is not specified).
find_skip_limit(c, offset, n) ==
  LET m == Cardinality(db[c])
      rest == IF offset < m THEN m - offset ELSE 0
  IN {U \in SUBSET db[c] : Cardinality(U) = limit(n, rest)}

\* A filter slip: the scan matches the documents' own id, whatever the field.
find_by_id(c, field, value) == {d \in db[c] : d.id = value}

\* collection.find({field: value})
find(c, field, value) == {d \in db[c] : d[field] = value}

\* A scoping slip: the delete is sent to every collection.
delete_many_everywhere(c, ids) ==
  [k \in Collections |-> {d \in db[k] : d._id \notin ids}]

\* A cascading delete: the steps and snapshots of a deleted transaction go
\* with it.
delete_many_cascade(c, ids) ==
  LET gone == {d.id : d \in {e \in db[c] : e._id \in ids}}
  IN [k \in Collections |->
        IF k = c THEN {d \in db[c] : d._id \notin ids}
        ELSE IF c = "transactions" /\ k \in {"steps", "snapshots"}
             THEN {d \in db[k] : d.transaction \notin gone}
             ELSE db[k]]

\* collection.delete_many({"_id": {"$in": ids}}): the database afterwards.
delete_many(c, ids) == [db EXCEPT ![c] = {d \in @ : d._id \notin ids}]

\* A unique index on id: the insert replaces the resident document of that id.
insert_one_unique(c, d) ==
  [db EXCEPT ![c] = {e \in @ : e.id # d.id} \cup {WithId(d, next_id[c])}]

\* collection.insert_one(d): the database afterwards.
insert_one(c, d) == [db EXCEPT ![c] = @ \cup {WithId(d, next_id[c])}]

\* ---------------------------------------------------------------- handlers
\* The response leaves the worker, which is free for the next request.  The
\* handler's locals ended with its last step.
Return(p) ==
  /\ pc[p] = "done"
  /\ pc' = [pc EXCEPT ![p] = "idle"]
  /\ req' = [req EXCEPT ![p] = NoReq]
  /\ resp' = [resp EXCEPT ![p] = NoResp]
  /\ UNCHANGED <<db, next_id, ids_to_delete, transaction, lastStart>>

\* The number of documents inserted so far.
Inserted ==
  next_id["snapshots"] + next_id["steps"] + next_id["transactions"]
    + next_id["logs"] - 4

\* POST /<c>, first backend call: count_documents against the cap.  The
\* clients post while fewer than budget documents have been inserted.  The
\* request keeps what count_documents returned (counted) and, as history, the
\* _id the next insert_one would have got when it arrived (arrival_id).
create_count(p, c, d, budget) ==
  /\ pc[p] = "idle"
  /\ Inserted < budget
  /\ req' = [req EXCEPT ![p] = [NoReq EXCEPT !.op = "create",
                                             !.collection_name = c, !.body = d,
                                             !.counted = count_documents(c),
                                             !.arrival_id = next_id[c]]]
  /\ pc' = [pc EXCEPT ![p] = IF at_capacity(c)
                             THEN "find_oldest" ELSE "insert_one"]
  /\ lastStart' = IF c = "transactions" THEN d.start ELSE lastStart
  /\ UNCHANGED <<db, next_id, ids_to_delete, transaction, resp>>

\* An eviction of the excess: the scan is limited to what brings the
\* collection back to one below its cap.
create_find_excess(p, c) ==
  /\ pc[p] = "find_oldest"
  /\ req[p].collection_name = c
  /\ \E ids \in find_sort_limit(c, sort_field(c),
                                  count_documents(c) - max_size(c) + chunk_size(c)) :
       ids_to_delete' = [ids_to_delete EXCEPT ![p] = ids]
  /\ pc' = [pc EXCEPT ![p] = "delete_oldest"]
  /\ UNCHANGED <<db, next_id, req, transaction, resp, lastStart>>

\* The oldest-first scan and the list of its _ids.
create_find_oldest(p, c) ==
  /\ pc[p] = "find_oldest"
  /\ req[p].collection_name = c
  /\ \E ids \in find_sort_limit(c, sort_field(c), chunk_size(c)) :
       ids_to_delete' = [ids_to_delete EXCEPT ![p] = ids]
  /\ pc' = [pc EXCEPT ![p] = "delete_oldest"]
  /\ UNCHANGED <<db, next_id, req, transaction, resp, lastStart>>

\* An eviction that waits until every scanned document is resident.
create_delete_oldest_waiting(p, c) ==
  /\ pc[p] = "delete_oldest"
  /\ req[p].collection_name = c
  /\ ids_to_delete[p] \subseteq {d._id : d \in db[c]}
  /\ db' = delete_many(c, ids_to_delete[p])
  /\ pc' = [pc EXCEPT ![p] = "insert_one"]
  /\ UNCHANGED <<next_id, req, ids_to_delete, transaction, resp, lastStart>>

\* delete_many of the scanned _ids.
create_delete_oldest(p, c) ==
  /\ pc[p] = "delete_oldest"
  /\ req[p].collection_name = c
  /\ db' = delete_many(c, ids_to_delete[p])
  /\ pc' = [pc EXCEPT ![p] = "insert_one"]
  /\ UNCHANGED <<next_id, req, ids_to_delete, transaction, resp, lastStart>>

\* insert_one and the response, which carries the request body.
create_insert_one(p, c) ==
  /\ pc[p] = "insert_one"
  /\ req[p].collection_name = c
  /\ db' = insert_one(c, req[p].body)
  /\ next_id' = [next_id EXCEPT ![c] = @ + 1]
  /\ resp' = [resp EXCEPT ![p] = [NoResp EXCEPT !.status = 200,
                                                !.body = {req[p].body}]]
  /\ pc' = [pc EXCEPT ![p] = "done"]
  /\ ids_to_delete' = [ids_to_delete EXCEPT ![p] = {}]
  /\ UNCHANGED <<req, transaction, lastStart>>

\* The handler of POST /<c>, with request bodies drawn from bodies.
create(p, c, bodies, budget) ==
  \/ \E d \in bodies : create_count(p, c, d, budget)
  \/ create_find_oldest(p, c)
  \/ create_delete_oldest(p, c)
  \/ create_insert_one(p, c)

create_snapshot(p, budget) == create(p, "snapshots", Snapshot, budget)
create_step(p, budget) == create(p, "steps", Step, budget)
create_transaction(p, budget) == create(p, "transactions", Transaction, budget)
create_log(p, budget) == create(p, "logs", Log, budget)

\* The collection_name values clients send: the four names and one other.
CollectionNames == Collections \cup {"widgets"}

\* A lookup with a default: an unknown name falls back to the logs.
delete_find_default(p, name, n) ==
  /\ pc[p] = "idle"
  /\ req' = [req EXCEPT ![p] = [NoReq EXCEPT !.op = "delete",
                                             !.collection_name = name,
                                             !.number_of_entries = n]]
  /\ \E ids \in find_limit(IF name \in Collections THEN name ELSE "logs", n) :
       ids_to_delete' = [ids_to_delete EXCEPT ![p] = ids]
  /\ pc' = [pc EXCEPT ![p] = "delete_many"]
  /\ UNCHANGED <<db, next_id, transaction, resp, lastStart>>

\* DELETE /delete up to the scan (lines 196-208): an unknown name is refused
\* with 400, otherwise find().limit(number_of_entries) and the list of its _ids.
delete_find(p, name, n) ==
  /\ pc[p] = "idle"
  /\ req' = [req EXCEPT ![p] = [NoReq EXCEPT !.op = "delete",
                                             !.collection_name = name,
                                             !.number_of_entries = n]]
  /\ IF name \notin Collections
     THEN /\ resp' = [resp EXCEPT ![p] = [NoResp EXCEPT !.status = 400]]
          /\ pc' = [pc EXCEPT ![p] = "done"]
          /\ UNCHANGED ids_to_delete
     ELSE /\ \E ids \in find_limit(name, n) :
               ids_to_delete' = [ids_to_delete EXCEPT ![p] = ids]
          /\ pc' = [pc EXCEPT ![p] = "delete_many"]
          /\ UNCHANGED resp
  /\ UNCHANGED <<db, next_id, transaction, lastStart>>

\* DELETE /delete, delete_many and the response with its deleted_count.
delete_delete_many(p) ==
  /\ pc[p] = "delete_many"
  /\ LET c == req[p].collection_name
         after == delete_many(c, ids_to_delete[p])
     IN /\ db' = after
        /\ resp' = [resp EXCEPT ![p] =
             [NoResp EXCEPT !.status = 200,
                            !.deleted_count = Cardinality(db[c]) - Cardinality(after[c])]]
  /\ pc' = [pc EXCEPT ![p] = "done"]
  /\ ids_to_delete' = [ids_to_delete EXCEPT ![p] = {}]
  /\ UNCHANGED <<next_id, req, transaction, lastStart>>

delete_entries(p) ==
  \/ \E name \in CollectionNames : \E n \in Numbers : delete_find(p, name, n)
  \/ delete_delete_many(p)

\* GET /transactions/{id}, find_one: 404 when there is no such transaction;
\* among several with that id the backend picks.
get_transaction_find_one(p, id) ==
  /\ pc[p] = "idle"
  /\ req' = [req EXCEPT ![p] = [NoReq EXCEPT !.op = "get_transaction", !.id = id]]
  /\ IF find("transactions", "id", id) = {}
     THEN /\ resp' = [resp EXCEPT ![p] = [NoResp EXCEPT !.status = 404]]
          /\ pc' = [pc EXCEPT ![p] = "done"]
          /\ UNCHANGED transaction
     ELSE /\ \E t \in find("transactions", "id", id) :
               transaction' = [transaction EXCEPT ![p] = t]
          /\ pc' = [pc EXCEPT ![p] = "find_steps"]
          /\ UNCHANGED resp
  /\ UNCHANGED <<db, next_id, ids_to_delete, lastStart>>

\* GET /transactions/{id}, the steps of the transaction and the response.
get_transaction_find_steps(p) ==
  /\ pc[p] = "find_steps"
  /\ resp' = [resp EXCEPT ![p] =
       [NoResp EXCEPT !.status = 200,
                      !.body = {mongo_to_dict(transaction[p])},
                      !.steps = {mongo_to_dict(s) :
                                   s \in find("steps", "transaction", req[p].id)}]]
  /\ pc' = [pc EXCEPT ![p] = "done"]
  /\ transaction' = [transaction EXCEPT ![p] = NoDoc]
  /\ UNCHANGED <<db, next_id, req, ids_to_delete, lastStart>>

get_transaction(p) ==
  \/ \E id \in Ids : get_transaction_find_one(p, id)
  \/ get_transaction_find_steps(p)

\* A handler that first looks the transaction up, as get_transaction does,
\* and answers 404 when it is not resident.
get_snapshots_of_resident_transaction(p) ==
  \E id \in Ids :
    /\ pc[p] = "idle"
    /\ req' = [req EXCEPT ![p] = [NoReq EXCEPT !.op = "get_snapshots_for_transaction",
                                               !.id = id]]
    /\ LET snapshots == find("snapshots", "transaction", id)
       IN resp' = [resp EXCEPT ![p] =
            IF snapshots = {} \/ find("transactions", "id", id) = {}
            THEN [NoResp EXCEPT !.status = 404]
            ELSE [NoResp EXCEPT !.status = 200,
                                !.body = {mongo_to_dict(s) : s \in snapshots}]]
    /\ pc' = [pc EXCEPT ![p] = "done"]
    /\ UNCHANGED <<db, next_id, ids_to_delete, transaction, lastStart>>

\* GET /transactions/{id}/snapshots: 404 when the scan is empty.
get_snapshots_for_transaction(p) ==
  \E id \in Ids :
    /\ pc[p] = "idle"
    /\ req' = [req EXCEPT ![p] = [NoReq EXCEPT !.op = "get_snapshots_for_transaction",
                                               !.id = id]]
    /\ LET snapshots == find("snapshots", "transaction", id)
       IN resp' = [resp EXCEPT ![p] =
            IF snapshots = {}
            THEN [NoResp EXCEPT !.status = 404]
            ELSE [NoResp EXCEPT !.status = 200,
                                !.body = {mongo_to_dict(s) : s \in snapshots}]]
    /\ pc' = [pc EXCEPT ![p] = "done"]
    /\ UNCHANGED <<db, next_id, ids_to_delete, transaction, lastStart>>

\* The id values clients ask for.
LogicalIds == Ids \cup {OtherId}

\* GET /<c>/{id} of snapshots, steps and logs: find_one({"id": id}), 404 when
\* it finds nothing; among several documents with that id the backend picks.
find_one(p, op, c) ==
  \E id \in LogicalIds :
    /\ pc[p] = "idle"
    /\ req' = [req EXCEPT ![p] = [NoReq EXCEPT !.op = op, !.collection_name = c,
                                               !.id = id]]
    /\ IF find(c, "id", id) = {}
       THEN resp' = [resp EXCEPT ![p] = [NoResp EXCEPT !.status = 404]]
       ELSE \E d \in find(c, "id", id) :
              resp' = [resp EXCEPT ![p] = [NoResp EXCEPT !.status = 200,
                                                        !.body = {mongo_to_dict(d)}]]
    /\ pc' = [pc EXCEPT ![p] = "done"]
    /\ UNCHANGED <<db, next_id, ids_to_delete, transaction, lastStart>>

get_snapshot(p) == find_one(p, "get_snapshot", "snapshots")

\* A lookup that takes the step out: find_one_and_delete.
get_step_consuming(p) ==
  \E id \in LogicalIds :
    /\ pc[p] = "idle"
    /\ req' = [req EXCEPT ![p] = [NoReq EXCEPT !.op = "get_step",
                                               !.collection_name = "steps",
                                               !.id = id]]
    /\ IF find("steps", "id", id) = {}
       THEN /\ resp' = [resp EXCEPT ![p] = [NoResp EXCEPT !.status = 404]]
            /\ UNCHANGED db
       ELSE \E d \in find("steps", "id", id) :
              /\ resp' = [resp EXCEPT ![p] = [NoResp EXCEPT !.status = 200,
                                                           !.body = {mongo_to_dict(d)}]]
              /\ db' = [db EXCEPT !["steps"] = @ \ {d}]
    /\ pc' = [pc EXCEPT ![p] = "done"]
    /\ UNCHANGED <<next_id, ids_to_delete, transaction, lastStart>>

get_step(p) == find_one(p, "get_step", "steps")
get_log(p) == find_one(p, "get_log", "logs")

\* GET /status: no backend call.
get_status(p) ==
  /\ pc[p] = "idle"
  /\ req' = [req EXCEPT ![p] = [NoReq EXCEPT !.op = "get_status"]]
  /\ resp' = [resp EXCEPT ![p] = [NoResp EXCEPT !.status = 200,
                                                !.body = {"Connected to API"}]]
  /\ pc' = [pc EXCEPT ![p] = "done"]
  /\ UNCHANGED <<db, next_id, ids_to_delete, transaction, lastStart>>

\* GET /snapshots: every snapshot.
get_all_snapshots(p) ==
  /\ pc[p] = "idle"
  /\ req' = [req EXCEPT ![p] = [NoReq EXCEPT !.op = "get_all_snapshots"]]
  /\ resp' = [resp EXCEPT ![p] =
       [NoResp EXCEPT !.status = 200,
                      !.body = {mongo_to_dict(s) : s \in db["snapshots"]}]]
  /\ pc' = [pc EXCEPT ![p] = "done"]
  /\ UNCHANGED <<db, next_id, ids_to_delete, transaction, lastStart>>

\* GET /transactions?count=&offset=: Cursor.skip raises ValueError for a
\* negative offset, which nothing catches (500); otherwise the page of
\* find().skip(offset).limit(count) and, for each of its transactions, the
\* steps that name it (resp.steps pairs a step with its transaction's _id).
\* The scan and the lookups of the loop are one step here.
get_all_transactions(p) ==
  \E count \in Numbers : \E offset \in Numbers :
    /\ pc[p] = "idle"
    /\ req' = [req EXCEPT ![p] = [NoReq EXCEPT !.op = "get_all_transactions",
                                               !.count = count, !.offset = offset]]
    /\ IF offset < 0
       THEN resp' = [resp EXCEPT ![p] = [NoResp EXCEPT !.status = 500]]
       ELSE \E transactions \in find_skip_limit("transactions", offset, count) :
              resp' = [resp EXCEPT ![p] =
                [NoResp EXCEPT
                   !.status = 200,
                   !.body = {mongo_to_dict(t) : t \in transactions},
                   !.steps = UNION {{<<mongo_to_dict(t)._id, mongo_to_dict(s)>> :
                                       s \in find("steps", "transaction", t.id)} :
                                     t \in transactions}]]
    /\ pc' = [pc EXCEPT ![p] = "done"]
    /\ UNCHANGED <<db, next_id, ids_to_delete, transaction, lastStart>>

\* ---------------------------------------------------------- specifications
\* The requests that read.
reads(p) ==
  \/ get_transaction(p)
  \/ get_snapshots_for_transaction(p)

\* One server process: requests are handled one after the other.
Next ==
  \E p \in Serial :
    \/ create_snapshot(p, MaxInserts)
    \/ create_step(p, MaxInserts)
    \/ create_transaction(p, MaxInserts)
    \/ create_log(p, MaxInserts)
    \/ delete_entries(p)
    \/ reads(p)
    \/ Return(p)

Spec == Init /\ [][Next]_vars

\* The same server when no client calls DELETE /delete.
NextInsert ==
  \E p \in Serial :
    \/ create_snapshot(p, MaxInserts + 1)
    \/ create_step(p, MaxInserts + 1)
    \/ create_transaction(p, MaxInserts + 1)
    \/ create_log(p, MaxInserts + 1)
    \/ reads(p)
    \/ Return(p)

SpecInsert == Init /\ [][NextInsert]_vars

\* Transactions whose start is later than that of every transaction posted before.
LaterTransaction ==
  {t \in [id : Ids, transaction : {""}, createdAt : {0}, start : 1..MaxInserts] :
     t.start > lastStart}

\* The same server when no client calls DELETE /delete and the transactions
\* arrive with strictly increasing start values.
NextIncreasing ==
  \E p \in Serial :
    \/ create_snapshot(p, MaxInserts)
    \/ create_step(p, MaxInserts)
    \/ create(p, "transactions", LaterTransaction, MaxInserts)
    \/ create_log(p, MaxInserts)
    \/ reads(p)
    \/ Return(p)

SpecIncreasing == Init /\ [][NextIncreasing]_vars

\* One server process whose clients call every endpoint.
NextRead ==
  \E p \in Serial :
    \/ create_snapshot(p, MaxInserts - 1)
    \/ create_step(p, MaxInserts - 1)
    \/ create_transaction(p, MaxInserts - 1)
    \/ create_log(p, MaxInserts - 1)
    \/ delete_entries(p)
    \/ reads(p)
    \/ get_status(p)
    \/ get_all_snapshots(p)
    \/ get_snapshot(p)
    \/ get_step(p)
    \/ get_log(p)
    \/ get_all_transactions(p)
    \/ Return(p)

SpecRead == Init /\ [][NextRead]_vars

\* One transaction, posted with any start, and its steps.
TransactionX == {t \in Transaction : t.id = "x"}
StepOfX == {s \in Step : s.transaction = "x"}

\* Two server processes (uvicorn workers, or replicas of the service) on the one
\* database: each runs one handler at a time, and their backend calls
\* interleave.  The clients post that transaction and its steps.
NextConcurrent ==
  \E p \in Workers :
    \/ create(p, "steps", StepOfX, MaxInserts + 1)
    \/ create(p, "transactions", TransactionX, MaxInserts + 1)
    \/ Return(p)

SpecConcurrent == Init /\ [][NextConcurrent]_vars

\* What a server process does once a request has arrived: the handler has no
\* await and its backend calls return, so it runs to its response.
Continue(p) ==
  \/ \E c \in Collections :
       \/ create_find_oldest(p, c)
       \/ create_delete_oldest(p, c)
       \/ create_insert_one(p, c)
  \/ delete_delete_many(p)
  \/ get_transaction_find_steps(p)
  \/ Return(p)

\* Two server processes with clients that post steps of one transaction, read
\* a step by id and delete one entry of the steps.
NextRace ==
  \E p \in Workers :
    \/ create(p, "steps", StepOfX, MaxInserts - 1)
    \/ delete_find(p, "steps", 1)
    \/ delete_delete_many(p)
    \/ get_step(p)
    \/ Return(p)

\* Every server process keeps running the handler it has started.
SpecRace == Init /\ [][NextRace]_vars /\ \A p \in Workers : WF_vars(Continue(p))

\* ------------------------------------------------------------------ claims
\* The worker is between two requests, or has its response ready.
AtRest(p) == pc[p] \in {"idle", "done"}

Occupancy(c) == Cardinality(db[c])

\* C1: with requests handled one after the other, no collection ever holds
\* more documents than its cap, the state between a create handler's
\* delete_many and its insert_one included.
C1_OccupancyWithinCapacity ==
  \A c \in Collections : Occupancy(c) <= max_size(c)

\* A create handler on the full transactions collection has evicted and has
\* not inserted yet.
C1_Witness ==
  \E p \in Serial :
    /\ pc[p] = "insert_one"
    /\ req[p].collection_name = "transactions"
    /\ ids_to_delete[p] # {}
    /\ Occupancy("transactions") = max_size("transactions") - 1

\* C2: after N create requests on an empty collection of cap C, handled one
\* after the other and with no DELETE /delete, the collection holds min(N, C)
\* documents.
C2_ResidentCount ==
  \A p \in Serial :
    AtRest(p) =>
      \A c \in Collections : Occupancy(c) = Min(next_id[c] - 1, max_size(c))

\* More transactions have been posted than the cap holds.
C2_Witness ==
  /\ \A p \in Serial : AtRest(p)
  /\ next_id["transactions"] - 1 > max_size("transactions")
  /\ Occupancy("transactions") = max_size("transactions")

\* C3: after transactions T1..Tn with strictly increasing start values, the
\* transactions collection holds exactly the last min(n, 3) of them (T1..Tn
\* got the _ids 1..n).
C3_LastThreeTransactions ==
  \A p \in Serial :
    AtRest(p) =>
      LET n == next_id["transactions"] - 1
      IN /\ {d._id : d \in db["transactions"]} = {k \in 1..n : k > n - 3}
         /\ \A d, e \in db["transactions"] : d._id < e._id => d.start < e.start

\* T1..T4 have been posted: T2, T3 and T4 are resident and T1 is gone.
C3_Witness ==
  /\ \A p \in Serial : AtRest(p)
  /\ next_id["transactions"] = 5
  /\ {d._id : d \in db["transactions"]} = {2, 3, 4}

\* The ordering field the claims name for each store.
OrderingField(c) ==
  CASE c = "transactions" -> "start"
    [] c = "steps"        -> "createdAt"
    [] c = "snapshots"    -> "createdAt"
    [] c = "logs"         -> "_id"

\* f comes before e in the order of c's ordering field, ties by _id.
Older(f, e, c) ==
  \/ f[OrderingField(c)] < e[OrderingField(c)]
  \/ f[OrderingField(c)] = e[OrderingField(c)] /\ f._id < e._id

\* The _ids of the chunk_size(c) first documents of c in that order.
StableOldest(c) ==
  {e._id : e \in {d \in db[c] :
                    Cardinality({f \in db[c] : Older(f, d, c)}) < chunk_size(c)}}

\* C4 as claimed: the create handler evicts the chunk_size documents with the
\* smallest sort field, ties broken by insertion order.
C4_StableEviction ==
  \A p \in Serial :
    pc[p] = "delete_oldest" => ids_to_delete[p] = StableOldest(req[p].collection_name)

\* C4 as amended: the create handler evicts exactly chunk_size resident
\* documents, none of which has a larger sort field than a document that
\* stays (which of several equal ones goes is the backend's choice); they are
\* gone before the new document is inserted, and the new document is resident
\* when the handler returns.
C4_OldestEviction ==
  \A p \in Serial :
    LET c == req[p].collection_name
        ids == ids_to_delete[p]
    IN /\ pc[p] = "delete_oldest" =>
            /\ ids \subseteq {d._id : d \in db[c]}
            /\ Cardinality(ids) = chunk_size(c)
            /\ \A e \in db[c] : \A r \in db[c] :
                 e._id \in ids /\ r._id \notin ids
                   => e[OrderingField(c)] <= r[OrderingField(c)]
       /\ pc[p] = "insert_one" =>
            /\ \A d \in db[c] : d._id \notin ids /\ d._id < next_id[c]
            /\ ids # {} => Occupancy(c) = max_size(c) - chunk_size(c)
       /\ pc[p] = "done" /\ req[p].op = "create" =>
            WithId(req[p].body, next_id[c] - 1) \in db[c]

\* The fourth transaction has evicted one of the first three and is resident,
\* although its start is smaller than that of every other resident one.
C4_Witness ==
  \E p \in Serial :
    /\ pc[p] = "done"
    /\ req[p].op = "create"
    /\ req[p].collection_name = "transactions"
    /\ next_id["transactions"] = max_size("transactions") + 2
    /\ Occupancy("transactions") = max_size("transactions")
    /\ \A d \in db["transactions"] :
         d._id # next_id["transactions"] - 1 => req[p].body.start < d.start

\* C5: a step that changes the transactions collection (an eviction, an
\* insert) leaves the steps and the snapshots as they are, and a scan of the
\* steps by transaction id still returns every step it returned before,
\* whether or not that transaction is resident.
C5_OrphanTolerance ==
  [][db'["transactions"] # db["transactions"] =>
       /\ db'["steps"] = db["steps"]
       /\ db'["snapshots"] = db["snapshots"]
       /\ \A s \in db["steps"] :
            s \in find("steps", "transaction", s.transaction)']_vars

\* The fourth transaction has just evicted the first one; a step of
\* transaction "x" is resident and no resident transaction has the id "x".
C5_Witness ==
  \E p \in Serial :
    /\ pc[p] = "insert_one"
    /\ req[p].collection_name = "transactions"
    /\ ids_to_delete[p] = {1}
    /\ next_id["transactions"] = max_size("transactions") + 1
    /\ \E s \in db["steps"] : s.transaction = "x"
    /\ \A t \in db["transactions"] : t.id # "x" /\ t._id # 1

\* The documents of collection c whose field has the value, as a response
\* shows them.
Shown(c, field, value) ==
  {mongo_to_dict(d) : d \in {e \in db[c] : e[field] = value}}

\* C6: GET /transactions/{id} answers 404 exactly when no resident
\* transaction has that id; otherwise it answers with one resident
\* transaction of that id and with exactly the resident steps whose
\* transaction field is id (none included), and with nothing else.
C6_TransactionWithSteps ==
  \A p \in Serial :
    pc[p] = "done" /\ req[p].op = "get_transaction" =>
      LET id == req[p].id
      IN /\ resp[p].status \in {200, 404}
         /\ resp[p].status = 404 <=> Shown("transactions", "id", id) = {}
         /\ resp[p].status = 404 => resp[p].body = {} /\ resp[p].steps = {}
         /\ resp[p].status = 200 =>
              /\ Cardinality(resp[p].body) = 1
              /\ resp[p].body \subseteq Shown("transactions", "id", id)
              /\ resp[p].steps = Shown("steps", "transaction", id)

\* A resident transaction without steps is returned with no steps, while
\* snapshots of it are resident.
C6_Witness ==
  \E p \in Serial :
    /\ pc[p] = "done"
    /\ req[p].op = "get_transaction"
    /\ resp[p].status = 200
    /\ resp[p].steps = {}
    /\ db["steps"] # {}
    /\ Shown("snapshots", "transaction", req[p].id) # {}

\* C7: GET /transactions/{id}/snapshots answers 404 exactly when no resident
\* snapshot has transaction = id, and otherwise with exactly the resident
\* snapshots of that transaction id, whether or not a transaction with that
\* id is resident.
C7_SnapshotsForTransaction ==
  \A p \in Serial :
    pc[p] = "done" /\ req[p].op = "get_snapshots_for_transaction" =>
      LET id == req[p].id
      IN /\ resp[p].status \in {200, 404}
         /\ resp[p].status = 404 <=> Shown("snapshots", "transaction", id) = {}
         /\ resp[p].body = Shown("snapshots", "transaction", id)
         /\ resp[p].steps = {}

\* The snapshots of a transaction that is not resident are returned.
C7_Witness ==
  \E p \in Serial :
    /\ pc[p] = "done"
    /\ req[p].op = "get_snapshots_for_transaction"
    /\ resp[p].status = 200
    /\ resp[p].body # {}
    /\ Shown("transactions", "id", req[p].id) = {}
    /\ db["transactions"] # {}

\* C8 as claimed: for n >= 0, DELETE /delete with number_of_entries = n on a
\* collection of m documents removes min(n, m) of them and reports that number.
C8_DeleteManyCount ==
  [][\A p \in Serial :
       LET c == req[p].collection_name
           n == req[p].number_of_entries
           m == Occupancy(c)
       IN pc[p] = "delete_many" /\ pc'[p] = "done" /\ n >= 0 =>
            /\ resp'[p].deleted_count = Min(n, m)
            /\ Cardinality(db'[c]) = m - Min(n, m)]_vars

\* What the handler does: the same for every n other than 0 (a negative n
\* counts as -n), and for n = 0 all m documents are removed and reported.
C8_DeleteManyAsCoded ==
  [][\A p \in Serial :
       LET c == req[p].collection_name
           n == req[p].number_of_entries
           m == Occupancy(c)
           k == IF n = 0 THEN m ELSE Min(Abs(n), m)
       IN pc[p] = "delete_many" /\ pc'[p] = "done" =>
            /\ resp'[p].deleted_count = k
            /\ Cardinality(db'[c]) = m - k
            /\ db'[c] \subseteq db[c]]_vars

\* The names the claims call known.
KnownNames == {"snapshots", "steps", "transactions", "logs"}

\* C9: DELETE /delete with a collection_name other than the four names ends
\* at once in a 400 response and changes no collection, whatever
\* number_of_entries is.
C9_UnknownCollection ==
  [][\A p \in Serial :
       /\ pc[p] = "idle" /\ req'[p].op = "delete"
            /\ req'[p].collection_name \notin KnownNames
          => pc'[p] = "done" /\ resp'[p].status = 400 /\ db' = db
       /\ pc[p] = "done" /\ req[p].op = "delete"
            /\ req[p].collection_name \notin KnownNames
          => resp[p].status = 400 /\ db' = db]_vars

\* "widgets" has been refused while every collection holds documents.
C9_Witness ==
  \E p \in Serial :
    /\ pc[p] = "done"
    /\ req[p].op = "delete"
    /\ req[p].collection_name = "widgets"
    /\ req[p].number_of_entries = 2
    /\ resp[p].status = 400
    /\ \A c \in Collections : db[c] # {}

\* C10: a step that changes one collection belongs to a create or delete
\* request on that collection and leaves the other three as they are.
C10_NoCascade ==
  [][\A c \in Collections :
       db'[c] # db[c] =>
         /\ \E p \in Serial : /\ req[p].op \in {"create", "delete"}
                              /\ req[p].collection_name = c
         /\ \A k \in Collections \ {c} : db'[k] = db[k]]_vars

\* DELETE /delete has emptied the steps while the other three collections
\* hold documents.
C10_Witness ==
  \E p \in Serial :
    /\ pc[p] = "done"
    /\ req[p].op = "delete"
    /\ req[p].collection_name = "steps"
    /\ resp[p].deleted_count > 0
    /\ \A c \in Collections \ {"steps"} : db[c] # {}

\* Worker p is inside a create_* handler on collection c.
InFlight(p, c) ==
  /\ pc[p] \in {"find_oldest", "delete_oldest", "insert_one"}
  /\ req[p].collection_name = c

\* C11: with the backend calls of concurrent create_* requests interleaved, a
\* collection on which no create_* request is in flight holds at most
\* max_size documents.
C11_WithinCapacityAtRest ==
  \A c \in Collections :
    (\A p \in Workers : ~InFlight(p, c)) => Occupancy(c) <= max_size(c)
\* Worker p has run its eviction on collection c and not yet its insert_one.
Evicted(p, c) ==
  /\ InFlight(p, c)
  /\ pc[p] = "insert_one"
  /\ ids_to_delete[p] # {}

\* In this step worker q makes a backend call on collection c.
Touches(q, c) ==
  /\ pc'[q] # pc[q]
  /\ \/ pc[q] = "idle" /\ req'[q].collection_name = c
     \/ pc[q] = "idle" /\ req'[q].op = "get_transaction" /\ c = "transactions"
     \/ pc[q] = "idle" /\ req'[q].op = "get_snapshots_for_transaction"
          /\ c = "snapshots"
     \/ pc[q] \in {"find_oldest", "delete_oldest", "insert_one", "delete_many"}
          /\ req[q].collection_name = c
     \/ pc[q] = "find_steps" /\ c = "steps"

\* No other request's backend call meets a collection between a create_*
\* request's eviction and its insert_one.
InsertAllOrNothing ==
  \A c \in Collections : \A p, q \in Workers :
    (p # q /\ Evicted(p, c)) => ~Touches(q, c)

\* The _ids DELETE /delete has scanned are all resident when its delete_many
\* runs, and none of them is resident afterwards.
DeleteManyAllOrNothing ==
  \A q \in Workers :
    (pc[q] = "delete_many" /\ pc'[q] = "done") =>
      /\ ids_to_delete[q] \subseteq {d._id : d \in db[req[q].collection_name]}
      /\ \A d \in db'[req[q].collection_name] : d._id \notin ids_to_delete[q]

\* C12: one create_* request and one DELETE /delete request are each
\* all-or-nothing for every concurrent request: none sees a collection with an
\* eviction applied and the new document missing, and the _ids of a
\* DELETE /delete are neither stale nor partly applied.
C12_AllOrNothing == [][InsertAllOrNothing /\ DeleteManyAllOrNothing]_vars
\* C13: two overlapping create_* requests on one collection can both find it
\* at its cap and each evict its own chunk, which leaves max_size minus two
\* chunks before either insert_one; two requests never evict more than that.
C13_TwoEvictions ==
  \A c \in Collections : \A p, q \in Workers :
    (p # q /\ Evicted(p, c) /\ Evicted(q, c)) =>
      Occupancy(c) >= max_size(c) - 2 * chunk_size(c)

\* Both requests on the transactions have evicted, each a document of its own,
\* and neither has inserted: one transaction of three is left.
C13_Witness ==
  \E p, q \in Workers :
    /\ p # q
    /\ Evicted(p, "transactions") /\ Evicted(q, "transactions")
    /\ ids_to_delete[p] \cap ids_to_delete[q] = {}
    /\ Cardinality(ids_to_delete[p]) = chunk_size("transactions")
    /\ Cardinality(ids_to_delete[q]) = chunk_size("transactions")
    /\ Occupancy("transactions") =
         max_size("transactions") - 2 * chunk_size("transactions")
\* Worker p is inside a create_* handler.
Creating(p) == \E c \in Collections : InFlight(p, c)

\* The step that ends a create_* request answers 200 and leaves the posted
\* document resident.
CompletesInserted ==
  \A p \in Workers :
    (Creating(p) /\ pc'[p] = "done") =>
      /\ resp'[p].status = 200
      /\ \E d \in db'[req[p].collection_name] :
           [id |-> d.id, transaction |-> d.transaction,
            createdAt |-> d.createdAt, start |-> d.start] = req[p].body

\* C14: every create_* request completes when its server process keeps
\* running, whatever the other process does (create, DELETE /delete, reads);
\* its next backend call never waits for the other request, and when it
\* completes its document has been inserted.
C14_InsertCompletes ==
  /\ \A p \in Workers : Creating(p) ~> (pc[p] = "done")
  /\ [](\A p \in Workers : Creating(p) => ENABLED Continue(p))
  /\ [][CompletesInserted]_vars

\* A create_* request has completed while the other process is in the middle
\* of a DELETE /delete.
C14_Witness ==
  \E p, q \in Workers :
    /\ pc[p] = "done" /\ req[p].op = "create" /\ resp[p].status = 200
    /\ pc[q] = "delete_many"
    /\ next_id["steps"] > max_size("steps") + 1
\* C15: GET /transactions with offset >= 0 and count >= 0 answers with at most
\* count transactions, none of the first offset ones; with a negative offset
\* or a negative count it ends in an error and returns no transaction.
C15_ListPaged ==
  \A p \in Serial :
    (pc[p] = "done" /\ req[p].op = "get_all_transactions") =>
      IF req[p].offset >= 0 /\ req[p].count >= 0
      THEN /\ resp[p].status = 200
           /\ Cardinality(resp[p].body) <= req[p].count
           /\ Cardinality(resp[p].body) <=
                (IF req[p].offset < Occupancy("transactions")
                 THEN Occupancy("transactions") - req[p].offset ELSE 0)
      ELSE /\ resp[p].status >= 400
           /\ resp[p].body = {}
\* The resident documents of collection c whose id is value.
ResidentWithId(c, value) == {d \in db[c] : d.id = value}

\* The answers of the lookups by id (GET /snapshots/{id}, /steps/{id},
\* /logs/{id}, /transactions/{id}): a resident document of that id, or 404
\* when there is none.
FindByIdOutcome ==
  \A p \in Serial :
    (pc[p] = "done" /\ req[p].op \in {"get_snapshot", "get_step", "get_log",
                                      "get_transaction"}) =>
      LET c == IF req[p].op = "get_transaction"
               THEN "transactions" ELSE req[p].collection_name
          matches == ResidentWithId(c, req[p].id)
      IN IF matches = {}
         THEN resp[p].status = 404 /\ resp[p].body = {}
         ELSE /\ resp[p].status = 200
              /\ \E d \in matches : resp[p].body = {mongo_to_dict(d)}

\* An insert_one of a document whose id a resident document already has
\* succeeds and adds one document; what was resident stays.
DuplicateIdInserted ==
  \A p \in Serial : \A c \in Collections :
    (/\ InFlight(p, c) /\ pc[p] = "insert_one" /\ pc'[p] = "done"
     /\ ResidentWithId(c, req[p].body.id) # {}) =>
      /\ resp'[p].status = 200
      /\ db[c] \subseteq db'[c]
      /\ Cardinality(db'[c]) = Cardinality(db[c]) + 1
      /\ Cardinality({d \in db'[c] : d.id = req[p].body.id}) >= 2

\* C16: a lookup by id returns a resident document of that id when there is
\* one and 404 otherwise; ids are not unique: a document whose id is already
\* resident is inserted next to the resident one, and both count.
C16_FindById == []FindByIdOutcome /\ [][DuplicateIdInserted]_vars

\* GET /steps/{id} has answered with one of two resident steps of that id.
C16_Witness ==
  \E p \in Serial :
    /\ pc[p] = "done" /\ req[p].op = "get_step" /\ resp[p].status = 200
    /\ Cardinality(ResidentWithId("steps", req[p].id)) >= 2
\* The requests that read.
ReadOps ==
  {"get_status", "get_all_snapshots", "get_snapshot", "get_all_transactions",
   "get_transaction", "get_snapshots_for_transaction", "get_step", "get_log"}

\* A document enters collection c only by the insert_one of a create_* request
\* on c, and it is the posted document.
EntersByInsert(c) ==
  db'[c] \ db[c] # {} =>
    \E p \in Serial :
      /\ InFlight(p, c) /\ pc[p] = "insert_one" /\ pc'[p] = "done"
      /\ \E d \in db'[c] :
           /\ db'[c] \ db[c] = {d}
           /\ [id |-> d.id, transaction |-> d.transaction,
               createdAt |-> d.createdAt, start |-> d.start] = req[p].body

\* A document leaves collection c only by the eviction of a create_* request
\* on c or by a DELETE /delete on c.
LeavesByEvictionOrDelete(c) ==
  db[c] \ db'[c] # {} =>
    \E p \in Serial :
      /\ req[p].collection_name = c
      /\ \/ req[p].op = "create" /\ pc[p] = "delete_oldest"
         \/ req[p].op = "delete" /\ pc[p] = "delete_many"
      /\ pc'[p] # pc[p]

\* A document that stays resident keeps its fields.
FieldsKept(c) ==
  \A d \in db[c] : \A e \in db'[c] : d._id = e._id => d = e

\* A step of a reading request leaves the four collections as they are.
ReadsChangeNothing ==
  \A p \in Serial :
    (pc'[p] # pc[p] /\ (req[p].op \in ReadOps \/ req'[p].op \in ReadOps)) =>
      db' = db

\* C17: a document becomes resident only through the create_* request of its
\* collection and stops being resident only through an eviction or a
\* DELETE /delete on that collection; resident documents never change; the
\* reading requests change no collection.
C17_RecordLifecycle ==
  [][/\ \A c \in Collections :
          EntersByInsert(c) /\ LeavesByEvictionOrDelete(c) /\ FieldsKept(c)
     /\ ReadsChangeNothing]_vars

\* A read has answered with resident documents after an eviction or a
\* delete has removed others.
C17_Witness ==
  \E p \in Serial :
    /\ pc[p] = "done" /\ req[p].op = "get_step" /\ resp[p].status = 200
    /\ next_id["steps"] - 1 > Occupancy("steps")
\* C18: of two resident steps the one inserted earlier (the smaller _id) has
\* the smaller or equal createdAt.
C18_CreatedAtMonotone ==
  \A d, e \in db["steps"] : d._id < e._id => d.createdAt <= e.createdAt
\* The step that ends a create_* request of worker p on collection c which
\* no other create_* request on c has overlapped: none has inserted since p's
\* request arrived and none is in flight.
NonOverlappingInsert(p, c) ==
  /\ InFlight(p, c) /\ pc[p] = "insert_one" /\ pc'[p] = "done"
  /\ next_id[c] = req[p].arrival_id
  /\ \A q \in Workers \ {p} : ~InFlight(q, c)

\* The documents of c, counting one for each request on c that is about to
\* run its insert_one.
Settled(c) ==
  Occupancy(c) + Cardinality({p \in Workers : InFlight(p, c) /\ pc[p] = "insert_one"})

\* C19: a create_* request that no other overlaps and that counted n >= max_size
\* documents has removed min(n, 1) of them before its insert_one and leaves n
\* again; no step of a create_* request lowers what the collection holds once
\* the pending insert_one calls have run, so a collection above its cap never
\* comes back down to it.
C19_FixedChunk ==
  [][\A c \in Collections :
       /\ \A p \in Workers :
            (NonOverlappingInsert(p, c) /\ req[p].counted >= max_size(c)) =>
              /\ Occupancy(c) = req[p].counted - Min(req[p].counted, 1)
              /\ Occupancy(c)' = req[p].counted
       /\ Settled(c)' >= Settled(c)]_vars

\* A request that counted more steps than the cap has completed without any
\* overlap, and the steps are as many as it counted.
C19_Witness ==
  \E p \in Workers :
    /\ pc[p] = "done" /\ req[p].op = "create" /\ req[p].collection_name = "steps"
    /\ req[p].counted > max_size("steps")
    /\ next_id["steps"] = req[p].arrival_id + 1
    /\ \A q \in Workers \ {p} : pc[q] = "idle"
    /\ Occupancy("steps") = req[p].counted
\* C20: without DELETE /delete, a collection on which no create_* request is
\* in flight holds at least min(max_size, number of completed inserts)
\* documents, however the create_* requests interleave.
C20_NeverDrained ==
  \A c \in Collections :
    (\A p \in Workers : ~InFlight(p, c)) =>
      Occupancy(c) >= Min(max_size(c), next_id[c] - 1)

\* Two requests on the steps that arrived together have both found the cap
\* reached, both evicted and both inserted; the steps are back at the cap.
C20_Witness ==
  \E p, q \in Workers :
    /\ p # q
    /\ pc[p] = "done" /\ pc[q] = "done"
    /\ req[p].op = "create" /\ req[q].op = "create"
    /\ req[p].collection_name = "steps" /\ req[q].collection_name = "steps"
    /\ req[p].counted = max_size("steps") /\ req[q].counted = max_size("steps")
    /\ req[p].arrival_id = req[q].arrival_id
    /\ Occupancy("steps") = max_size("steps")
====
